---- MODULE Spec2Model ----
(***************************************************************************)
(* GameForge application metrics (src/src/metrics/gameforge_metrics.py).   *)
(*                                                                         *)
(* The model covers the GameForgeMetrics registry object, the background   *)
(* collection thread (collect_metrics with its two phases,                 *)
(* _collect_gpu_metrics and _collect_system_metrics), the recorder calls   *)
(* made from application threads (record_http_request, update_queue_size,  *)
(* the time_inference and time_model_load wrappers), the live device       *)
(* snapshot get_gpu_metrics and the rendering get_prometheus_metrics.      *)
(*                                                                         *)
(* A labelled metric is a function from the label tuples that have been    *)
(* used so far to the value of that series: prometheus_client creates the  *)
(* child series on the first .labels(...) call and keeps it for ever.      *)
(* Every query of the host or of a device either returns a value or raises *)
(* an Exception; the choice is made by \E at the step that queries.        *)
(***************************************************************************)
EXTENDS Integers, Sequences, FiniteSets, TLC

\* ------------------------------------------------------------------ bounds
MaxGpu == 2          \* largest device count nvmlDeviceGetCount() reports
NumThreads == 2      \* application threads calling the recorder API
MaxCalls == 3        \* recorder calls started in one behaviour

\* ------------------------------------------------- environment's answers
UtilReadings == {10, 90}            \* util.gpu
MemReadings == {[used |-> 0, total |-> 0], [used |-> 4, total |-> 8]}
TempReadings == {60}                \* nvmlDeviceGetTemperature
HostMemTotals == {16, 32}           \* psutil.virtual_memory().total
HostCpuCount == 4                   \* psutil.cpu_count()
HostMemUsed == {7}                  \* psutil.virtual_memory().used
CpuPercents == {37}                 \* psutil.cpu_percent()
DeviceName(i) == "A100"             \* nvmlDeviceGetName(handle).decode('utf-8')

\* ----------------------------------------------- the application's calls
HttpArgs == {<<"GET", "/a", 200>>, <<"GET", "/a", 500>>}
ModelNames == {"sdxl", "llama"}
Returns == {[kind |-> "return", val |-> "image"]}
Raises == {[kind |-> "raise", val |-> "ValueError"],
           [kind |-> "raise", val |-> "TimeoutError"]}
Outcomes == Returns \cup Raises     \* how a wrapped func can end
Durations == {1, 2}                 \* time.time() - start_time
QueueNames == {"render", "train"}   \* queue_name of update_queue_size
QueueSizes == {0, 5}                \* size of update_queue_size
NoSize == -1                        \* no update_queue_size call completed yet
Threads == 1 .. NumThreads

VARIABLES
    NVIDIA_AVAILABLE,   \* module global: import nvidia_ml_py3 succeeded
    init_raised,        \* history: nvmlInit()/nvmlDeviceGetCount() raised
    gpu_available,      \* self.gpu_available
    gpu_count,          \* self.gpu_count
    gpu_utilization,    \* Gauge gameforge_gpu_utilization_percent
    gpu_memory_used,    \* Gauge gameforge_gpu_memory_used_bytes
    gpu_memory_total,   \* Gauge gameforge_gpu_memory_total_bytes
    gpu_temperature,    \* Gauge gameforge_gpu_temperature_celsius
    app_info,           \* Info gameforge_app_info
    s_pc,               \* position of the collect_metrics thread
    s_i,                \* loop variable i of _collect_gpu_metrics
    s_mem_info,         \* local mem_info of _collect_gpu_metrics
    s_memory,           \* local memory of _collect_system_metrics (its total)
    s_memory_used,      \* local memory of _collect_system_metrics (its used)
    s_cpu_percent,      \* local cpu_percent of _collect_system_metrics
    last_sleep,         \* argument of the last time.sleep of the thread
    written,            \* history: <<gauge, i>> set in the running cycle
    failed,             \* history: devices whose query raised in this cycle
    temp_failed,        \* history: devices whose temperature query raised
    host_phase,         \* history: "pending", "ok" or "fault" in this cycle
    faults_seen,        \* history: some query has raised since the start
    http_requests_total,       \* Counter gameforge_http_requests_total
    inference_requests_total,  \* Counter gameforge_inference_requests_total
    inference_duration,        \* Histogram ..._inference_request_duration_seconds
    model_load_duration,       \* Histogram gameforge_model_load_duration_seconds
    t_pc,               \* position of each application thread
    t_http,             \* arguments of the thread's record_http_request call
    t_model,            \* model_name of the thread's timing wrapper
    t_outcome,          \* how the wrapped func ended in the thread's wrapper
    t_result,           \* what the wrapper handed to its caller
    t_marks,            \* history: what the thread's current call recorded
    http_calls,         \* history: record_http_request calls made per arguments
    calls,              \* history: recorder calls started
    worker_queue_size,  \* Gauge gameforge_worker_queue_size
    t_queue,            \* arguments of the thread's update_queue_size call
    queue_last,         \* history: size of the last completed call per queue
    g_pc,               \* position of the caller of get_gpu_metrics
    g_i,                \* loop variable i of get_gpu_metrics
    gpu_data,           \* local gpu_data of get_gpu_metrics
    g_result,           \* what get_gpu_metrics handed to its caller
    g_failed,           \* history: devices whose guarded block raised
    g_zero,             \* history: devices whose mem_info.total was 0
    scrape              \* what get_prometheus_metrics handed to its caller

config == <<NVIDIA_AVAILABLE, init_raised, gpu_available, gpu_count>>
gauges == <<gpu_utilization, gpu_memory_used, gpu_memory_total, gpu_temperature>>
host_locals == <<s_memory, s_memory_used, s_cpu_percent>>
sampler == <<s_pc, s_i, s_mem_info, host_locals, last_sleep>>
history == <<written, failed, temp_failed, host_phase, faults_seen>>
counters == <<http_requests_total, inference_requests_total>>
histograms == <<inference_duration, model_load_duration>>
threads == <<t_pc, t_http, t_model, t_outcome, t_result, t_marks, http_calls, calls>>
samplerVars == <<config, gauges, app_info, sampler, history>>
queueVars == <<worker_queue_size, t_queue, queue_last>>
recorderVars == <<counters, histograms, threads, queueVars>>
snapshotVars == <<g_pc, g_i, gpu_data, g_result, g_failed, g_zero>>
readerVars == <<snapshotVars, scrape>>
registry == <<gauges, app_info, counters, histograms, worker_queue_size>>

\* ------------------------------------------------------- labelled series
NoSeries == [k \in {} |-> 0]

\* Variant: a creation that is not idempotent, a later labels() call replaces
\* the series by a fresh one.
ChildReplaces(metric, labels, zero) ==
    [k \in (DOMAIN metric) \cup {labels} |->
        IF k = labels THEN zero ELSE metric[k]]

\* metric.labels(...): the child series of these label values, created with
\* the value zero on first use and the same one on every later use.
Child(metric, labels, zero) ==
    IF labels \in DOMAIN metric
    THEN metric
    ELSE [k \in (DOMAIN metric) \cup {labels} |->
             IF k = labels THEN zero ELSE metric[k]]

\* Variant: an incremental gauge, set adds the size to the series.
SetGaugeAdds(metric, labels, v) ==
    [Child(metric, labels, 0) EXCEPT ![labels] = @ + v]

\* Variant: set starts the metric afresh, the series of other labels are lost.
SetGaugeFresh(metric, labels, v) ==
    [k \in {labels} |-> v]

\* gauge.labels(...).set(v)
SetGauge(metric, labels, v) ==
    [Child(metric, labels, 0) EXCEPT ![labels] = v]

\* child.inc(): one atomic addition of 1 to the series.
Inc(metric, labels) ==
    [metric EXCEPT ![labels] = @ + 1]

\* counter.labels(...).inc()
IncCounter(metric, labels) ==
    Inc(Child(metric, labels, 0), labels)

\* histogram.labels(...).observe(v): one more observation, v added to the sum.
Observe(metric, labels, v) ==
    [Child(metric, labels, [count |-> 0, sum |-> 0]) EXCEPT
        ![labels] = [count |-> @.count + 1, sum |-> @.sum + v]]

\* The value of a series, 0 while the series does not exist.
Value(metric, labels) ==
    IF labels \in DOMAIN metric THEN metric[labels] ELSE 0

\* The observation count of a histogram series, 0 while it does not exist.
Count(metric, labels) ==
    IF labels \in DOMAIN metric THEN metric[labels].count ELSE 0

\* labels(gpu_id=str(i), gpu_name=name)
GpuLabels(i) == <<ToString(i), DeviceName(i)>>

\* ----------------------------------------------------------- __init__
\* Variant: a failing initialisation leaves the object marked available.
GpuInitKeepsAvailable(nvidia_available, init_raises, count) ==
    [gpu_available |-> nvidia_available,
     gpu_count |-> IF init_raises THEN 0 ELSE count]

\* NVIDIA_AVAILABLE, the outcome of nvmlInit()/nvmlDeviceGetCount() and the
\* count decide gpu_available and gpu_count once.
GpuInit(nvidia_available, init_raises, count) ==
    IF nvidia_available /\ ~init_raises
    THEN [gpu_available |-> TRUE, gpu_count |-> count]
    ELSE [gpu_available |-> FALSE, gpu_count |-> 0]

NoInfo == [k \in {} |-> ""]

SleepNormal == 5
SleepBackoff == 10

InitSampler ==
    /\ \E nv \in BOOLEAN, raises \in BOOLEAN, n \in 0 .. MaxGpu :
          /\ NVIDIA_AVAILABLE = nv
          /\ init_raised = (nv /\ raises)
          /\ gpu_available = GpuInit(nv, raises, n).gpu_available
          /\ gpu_count = GpuInit(nv, raises, n).gpu_count
    /\ gpu_utilization = NoSeries
    /\ gpu_memory_used = NoSeries
    /\ gpu_memory_total = NoSeries
    /\ gpu_temperature = NoSeries
    /\ app_info = NoInfo
    /\ s_pc = "loop"
    /\ s_i = 0
    /\ s_mem_info = [used |-> 0, total |-> 0]
    /\ s_memory = 0
    /\ s_memory_used = 0
    /\ s_cpu_percent = 0
    /\ last_sleep = 0
    /\ written = {}
    /\ failed = {}
    /\ temp_failed = {}
    /\ host_phase = "pending"
    /\ faults_seen = FALSE

\* ------------------------------------------- where an exception is handled
\* Variant: the handler of the device phase ends the whole cycle.
OnDeviceQueryErrorSkipsHost == "sleep"

\* The try of _collect_gpu_metrics encloses the whole for loop: its handler
\* prints and the function returns, so collect_metrics goes on to
\* _collect_system_metrics.
OnDeviceQueryError == "system"

\* End of one loop body: the next index, or the end of the for loop.
NextDevice(i) ==
    IF i + 1 < gpu_count
    THEN [pc |-> "gpu_handle", i |-> i + 1]
    ELSE [pc |-> "system", i |-> 0]

\* Variant: no inner try, the temperature error ends the device loop.
OnTemperatureErrorAborts(i) == [pc |-> "system", i |-> 0]

\* The inner try around the temperature query: except: pass.
OnTemperatureError(i) == NextDevice(i)

\* Variant: nothing catches the host query's exception, the thread ends.
OnSystemErrorDies == "dead"

\* Variant: the host phase has no handler, its exception reaches the loop's.
OnSystemErrorEscapes == "backoff"

\* The handler of _collect_system_metrics prints; collect_metrics sleeps.
OnSystemError == "sleep"

\* Variant: without accelerator the cycle ends before the host phase.
AfterDevicePhaseSkippedToSleep == "sleep"

\* if not self.gpu_available: return (and an empty range(self.gpu_count)):
\* _collect_gpu_metrics returns and collect_metrics calls the host phase.
AfterDevicePhaseSkipped == "system"

\* ------------------------------------------------- collect_metrics thread
\* while True: try: self._collect_gpu_metrics() ...
\* if not self.gpu_available: return; for i in range(self.gpu_count)
CollectGpuStart ==
    /\ s_pc = "loop"
    /\ s_pc' = IF gpu_available /\ gpu_count > 0
               THEN "gpu_handle"
               ELSE AfterDevicePhaseSkipped
    /\ s_i' = 0
    /\ written' = {}
    /\ failed' = {}
    /\ temp_failed' = {}
    /\ host_phase' = "pending"
    /\ UNCHANGED <<config, gauges, app_info, s_mem_info, host_locals, last_sleep,
                   faults_seen>>
    /\ UNCHANGED <<recorderVars, readerVars>>

\* A query of device s_i raised before the temperature block.
DeviceQueryRaises ==
    /\ s_pc' = OnDeviceQueryError
    /\ s_i' = 0
    /\ failed' = failed \cup {s_i}
    /\ faults_seen' = TRUE
    /\ UNCHANGED <<config, gauges, app_info, s_mem_info, host_locals, last_sleep,
                   written, temp_failed, host_phase>>

\* handle = nvmlDeviceGetHandleByIndex(i); name = nvmlDeviceGetName(handle)
GpuHandle ==
    /\ s_pc = "gpu_handle"
    /\ \/ /\ s_pc' = "gpu_util"
          /\ UNCHANGED <<config, gauges, app_info, s_i, s_mem_info, host_locals,
                         last_sleep, history>>
       \/ DeviceQueryRaises
    /\ UNCHANGED <<recorderVars, readerVars>>

\* util = nvmlDeviceGetUtilizationRates(handle); gpu_utilization...set(util.gpu)
GpuUtil ==
    /\ s_pc = "gpu_util"
    /\ \/ \E u \in UtilReadings :
             /\ gpu_utilization' = SetGauge(gpu_utilization, GpuLabels(s_i), u)
             /\ written' = written \cup {<<"utilization", s_i>>}
             /\ s_pc' = "gpu_mem_used"
             /\ UNCHANGED <<config, gpu_memory_used, gpu_memory_total,
                            gpu_temperature, app_info, s_i, s_mem_info, host_locals,
                            last_sleep, failed, temp_failed, host_phase,
                            faults_seen>>
       \/ DeviceQueryRaises
    /\ UNCHANGED <<recorderVars, readerVars>>

\* mem_info = nvmlDeviceGetMemoryInfo(handle); gpu_memory_used...set(mem_info.used)
GpuMemUsed ==
    /\ s_pc = "gpu_mem_used"
    /\ \/ \E m \in MemReadings :
             /\ s_mem_info' = m
             /\ gpu_memory_used' = SetGauge(gpu_memory_used, GpuLabels(s_i), m.used)
             /\ written' = written \cup {<<"memory_used", s_i>>}
             /\ s_pc' = "gpu_mem_total"
             /\ UNCHANGED <<config, gpu_utilization, gpu_memory_total,
                            gpu_temperature, app_info, s_i, host_locals, last_sleep,
                            failed, temp_failed, host_phase, faults_seen>>
       \/ DeviceQueryRaises
    /\ UNCHANGED <<recorderVars, readerVars>>

\* gpu_memory_total...set(mem_info.total)
GpuMemTotal ==
    /\ s_pc = "gpu_mem_total"
    /\ gpu_memory_total' = SetGauge(gpu_memory_total, GpuLabels(s_i), s_mem_info.total)
    /\ written' = written \cup {<<"memory_total", s_i>>}
    /\ s_pc' = "gpu_temp"
    /\ UNCHANGED <<config, gpu_utilization, gpu_memory_used, gpu_temperature,
                   app_info, s_i, s_mem_info, host_locals, last_sleep, failed,
                   temp_failed, host_phase, faults_seen>>
    /\ UNCHANGED <<recorderVars, readerVars>>

\* try: temp = nvmlDeviceGetTemperature(...); gpu_temperature...set(temp)
\* except: pass
GpuTemp ==
    /\ s_pc = "gpu_temp"
    /\ \/ \E t \in TempReadings :
             /\ gpu_temperature' = SetGauge(gpu_temperature, GpuLabels(s_i), t)
             /\ written' = written \cup {<<"temperature", s_i>>}
             /\ s_pc' = NextDevice(s_i).pc
             /\ s_i' = NextDevice(s_i).i
             /\ UNCHANGED <<temp_failed, faults_seen>>
       \/ /\ s_pc' = OnTemperatureError(s_i).pc
          /\ s_i' = OnTemperatureError(s_i).i
          /\ temp_failed' = temp_failed \cup {s_i}
          /\ faults_seen' = TRUE
          /\ UNCHANGED <<gpu_temperature, written>>
    /\ UNCHANGED <<config, gpu_utilization, gpu_memory_used, gpu_memory_total,
                   app_info, s_mem_info, host_locals, last_sleep, failed, host_phase>>
    /\ UNCHANGED <<recorderVars, readerVars>>

\* The record _collect_system_metrics passes to app_info.info.
AppInfo(cpu_count, memory_total) ==
    [version |-> "1.0.0", environment |-> "production", deployment |-> "vastai",
     cpu_cores |-> ToString(cpu_count), memory_total |-> ToString(memory_total),
     gpu_count |-> ToString(gpu_count)]

\* _collect_system_metrics: cpu_percent, virtual_memory, app_info.info({...})
CollectSystem ==
    /\ s_pc = "system"
    /\ \/ \E total \in HostMemTotals, used \in HostMemUsed, cpu \in CpuPercents :
             /\ s_cpu_percent' = cpu
             /\ s_memory' = total
             /\ s_memory_used' = used
             /\ app_info' = AppInfo(HostCpuCount, total)
             /\ host_phase' = "ok"
             /\ s_pc' = "sleep"
             /\ UNCHANGED faults_seen
       \/ /\ s_pc' = OnSystemError
          /\ host_phase' = "fault"
          /\ faults_seen' = TRUE
          /\ UNCHANGED <<app_info, host_locals>>
    /\ UNCHANGED <<config, gauges, s_i, s_mem_info, last_sleep, written, failed,
                   temp_failed>>
    /\ UNCHANGED <<recorderVars, readerVars>>

\* time.sleep(5) at the end of the try block, then the next iteration.
Sleep ==
    /\ s_pc = "sleep"
    /\ last_sleep' = SleepNormal
    /\ s_pc' = "loop"
    /\ UNCHANGED <<config, gauges, app_info, s_i, s_mem_info, host_locals, history>>
    /\ UNCHANGED <<recorderVars, readerVars>>

\* Variant: the loop-level handler is missing, an escaped exception ends in
\* the ordinary sleep of the try block.
OnCycleErrorSleepsNormally == "sleep"

\* except Exception of collect_metrics: where an exception that left one of
\* the two phases is handled.
OnCycleError == "backoff"

\* A device query raised and the print of the handler of _collect_gpu_metrics
\* raised in its turn: the exception leaves the phase, the host phase of the
\* cycle is not called.
GpuHandlerRaises ==
    /\ s_pc \in {"gpu_handle", "gpu_util", "gpu_mem_used"}
    /\ s_pc' = OnCycleError
    /\ s_i' = 0
    /\ failed' = failed \cup {s_i}
    /\ host_phase' = "skipped"
    /\ faults_seen' = TRUE
    /\ UNCHANGED <<config, gauges, app_info, s_mem_info, host_locals, last_sleep,
                   written, temp_failed>>
    /\ UNCHANGED <<recorderVars, readerVars>>

\* A host query raised and the print of the handler of
\* _collect_system_metrics raised in its turn.
SystemHandlerRaises ==
    /\ s_pc = "system"
    /\ s_pc' = OnCycleError
    /\ host_phase' = "escaped"
    /\ faults_seen' = TRUE
    /\ UNCHANGED <<config, gauges, app_info, s_i, s_mem_info, host_locals,
                   last_sleep, written, failed, temp_failed>>
    /\ UNCHANGED <<recorderVars, readerVars>>

\* except Exception as e: print(...); time.sleep(10), then the next iteration.
Backoff ==
    /\ s_pc = "backoff"
    /\ last_sleep' = SleepBackoff
    /\ s_pc' = "loop"
    /\ UNCHANGED <<config, gauges, app_info, s_i, s_mem_info, host_locals, history>>
    /\ UNCHANGED <<recorderVars, readerVars>>


\* ------------------------------------------------------- recorder API
NoCall == [kind |-> "none", val |-> ""]
NoMarks == [op |-> "none", success |-> 0, error |-> 0, observed |-> 0]

InitRecorder ==
    /\ http_requests_total = NoSeries
    /\ inference_requests_total = NoSeries
    /\ inference_duration = NoSeries
    /\ model_load_duration = NoSeries
    /\ t_pc = [t \in Threads |-> "idle"]
    /\ t_http = [t \in Threads |-> <<"", "", 0>>]
    /\ t_model = [t \in Threads |-> ""]
    /\ t_outcome = [t \in Threads |-> NoCall]
    /\ t_result = [t \in Threads |-> NoCall]
    /\ t_marks = [t \in Threads |-> NoMarks]
    /\ http_calls = [a \in HttpArgs |-> 0]
    /\ calls = 0
    /\ worker_queue_size = NoSeries
    /\ t_queue = [t \in Threads |-> <<"", 0>>]
    /\ queue_last = [q \in QueueNames |-> NoSize]

\* A thread enters a recorder call: what the previous call left is dropped.
Enter(t, op, pc) ==
    /\ t_pc[t] = "idle"
    /\ calls < MaxCalls
    /\ calls' = calls + 1
    /\ t_pc' = [t_pc EXCEPT ![t] = pc]
    /\ t_outcome' = [t_outcome EXCEPT ![t] = NoCall]
    /\ t_result' = [t_result EXCEPT ![t] = NoCall]
    /\ t_marks' = [t_marks EXCEPT ![t] = [NoMarks EXCEPT !.op = op]]

\* labels(method=method, endpoint=endpoint, status=str(status))
HttpLabels(method, endpoint, status) == <<method, endpoint, ToString(status)>>

HttpKey(a) == HttpLabels(a[1], a[2], a[3])

\* record_http_request, first half: http_requests_total.labels(...)
RecordHttpRequest(t) ==
    \E a \in HttpArgs :
        /\ Enter(t, "http", "http_inc")
        /\ t_http' = [t_http EXCEPT ![t] = a]
        /\ http_calls' = [http_calls EXCEPT ![a] = @ + 1]
        /\ http_requests_total' = Child(http_requests_total, HttpKey(a), 0)
        /\ UNCHANGED <<inference_requests_total, histograms, t_model>>
        /\ UNCHANGED <<samplerVars, readerVars, queueVars>>

\* record_http_request, second half: .inc() on the child
HttpInc(t) ==
    /\ t_pc[t] = "http_inc"
    /\ http_requests_total' = Inc(http_requests_total, HttpKey(t_http[t]))
    /\ t_pc' = [t_pc EXCEPT ![t] = "idle"]
    /\ UNCHANGED <<inference_requests_total, histograms, t_http, t_model,
                   t_outcome, t_result, t_marks, http_calls, calls>>
    /\ UNCHANGED <<samplerVars, readerVars, queueVars>>

\* time_inference wrapper: start_time = time.time(); func(*args, **kwargs) runs
InferenceStart(t) ==
    \E m \in ModelNames :
        /\ Enter(t, "inference", "inf_running")
        /\ t_model' = [t_model EXCEPT ![t] = m]
        /\ UNCHANGED <<counters, histograms, t_http, http_calls>>
        /\ UNCHANGED <<samplerVars, readerVars, queueVars>>

\* Variant: the success increment moved out of the try body.
InferenceStatusAlwaysSuccess(outcome) == "success"

\* The status label the wrapper counts: 'success' after the call returned,
\* 'error' in the except Exception branch.
InferenceStatus(outcome) ==
    IF outcome.kind = "return" THEN "success" ELSE "error"

\* func returns or raises; inference_requests_total.labels(model, status).inc()
InferenceFuncEnds(t) ==
    /\ t_pc[t] = "inf_running"
    /\ \E o \in Outcomes :
          /\ t_outcome' = [t_outcome EXCEPT ![t] = o]
          /\ inference_requests_total' =
                IncCounter(inference_requests_total,
                           <<t_model[t], InferenceStatus(o)>>)
          /\ t_marks' = [t_marks EXCEPT
                ![t].success = @ + (IF InferenceStatus(o) = "success" THEN 1 ELSE 0),
                ![t].error = @ + (IF InferenceStatus(o) = "error" THEN 1 ELSE 0)]
    /\ t_pc' = [t_pc EXCEPT ![t] = "inf_finally"]
    /\ UNCHANGED <<http_requests_total, histograms, t_http, t_model, t_result,
                   http_calls, calls>>
    /\ UNCHANGED <<samplerVars, readerVars, queueVars>>

\* Variant: the handler raises an exception of its own in place of the bare raise.
WrapperExitWraps(outcome) ==
    IF outcome.kind = "raise"
    THEN [kind |-> "raise", val |-> "MetricsError"]
    ELSE outcome

\* What leaves the wrapper: return result, or the bare raise of the handler.
WrapperExit(outcome) == outcome

\* Variant: the observation is the last statement of the try body.
ObservesOnlyOnReturn(outcome) == outcome.kind = "return"

\* The duration is observed in a finally block: on every way out.
ObservesOnExit(outcome) == TRUE

\* finally: duration = time.time() - start_time; inference_duration...observe
InferenceFinally(t) ==
    /\ t_pc[t] = "inf_finally"
    /\ IF ObservesOnExit(t_outcome[t])
       THEN \E d \in Durations :
               /\ inference_duration' =
                     Observe(inference_duration, <<t_model[t]>>, d)
               /\ t_marks' = [t_marks EXCEPT ![t].observed = @ + 1]
       ELSE UNCHANGED <<inference_duration, t_marks>>
    /\ t_result' = [t_result EXCEPT ![t] = WrapperExit(t_outcome[t])]
    /\ t_pc' = [t_pc EXCEPT ![t] = "idle"]
    /\ UNCHANGED <<counters, model_load_duration, t_http, t_model, t_outcome,
                   http_calls, calls>>
    /\ UNCHANGED <<samplerVars, readerVars, queueVars>>

\* time_model_load wrapper: start_time = time.time(); func(*args, **kwargs) runs
ModelLoadStart(t) ==
    \E m \in ModelNames :
        /\ Enter(t, "model_load", "load_running")
        /\ t_model' = [t_model EXCEPT ![t] = m]
        /\ UNCHANGED <<counters, histograms, t_http, http_calls>>
        /\ UNCHANGED <<samplerVars, readerVars, queueVars>>

\* Variant: the model-load wrapper counts like the inference wrapper.
ModelLoadCountsLikeInference(outcome) == TRUE

\* The model-load wrapper has no except branch: it counts nothing.
ModelLoadCounts(outcome) == FALSE

\* func returns or raises inside try: ... finally:
ModelLoadFuncEnds(t) ==
    /\ t_pc[t] = "load_running"
    /\ \E o \in Outcomes :
          /\ t_outcome' = [t_outcome EXCEPT ![t] = o]
          /\ IF ModelLoadCounts(o)
             THEN /\ inference_requests_total' =
                        IncCounter(inference_requests_total,
                                   <<t_model[t], InferenceStatus(o)>>)
                  /\ t_marks' = [t_marks EXCEPT
                        ![t].success = @ + (IF InferenceStatus(o) = "success" THEN 1 ELSE 0),
                        ![t].error = @ + (IF InferenceStatus(o) = "error" THEN 1 ELSE 0)]
             ELSE UNCHANGED <<inference_requests_total, t_marks>>
    /\ t_pc' = [t_pc EXCEPT ![t] = "load_finally"]
    /\ UNCHANGED <<http_requests_total, histograms, t_http, t_model, t_result,
                   http_calls, calls>>
    /\ UNCHANGED <<samplerVars, readerVars, queueVars>>

\* finally: duration = ...; model_load_duration.labels(model_name).observe
ModelLoadFinally(t) ==
    /\ t_pc[t] = "load_finally"
    /\ \E d \in Durations :
          model_load_duration' = Observe(model_load_duration, <<t_model[t]>>, d)
    /\ t_marks' = [t_marks EXCEPT ![t].observed = @ + 1]
    /\ t_result' = [t_result EXCEPT ![t] = WrapperExit(t_outcome[t])]
    /\ t_pc' = [t_pc EXCEPT ![t] = "idle"]
    /\ UNCHANGED <<counters, inference_duration, t_http, t_model, t_outcome,
                   http_calls, calls>>
    /\ UNCHANGED <<samplerVars, readerVars, queueVars>>

\* update_queue_size, first half: worker_queue_size.labels(queue_name=...)
UpdateQueueSize(t) ==
    \E q \in QueueNames, size \in QueueSizes :
        /\ Enter(t, "queue", "queue_set")
        /\ t_queue' = [t_queue EXCEPT ![t] = <<q, size>>]
        /\ worker_queue_size' = Child(worker_queue_size, <<q>>, 0)
        /\ UNCHANGED <<counters, histograms, t_http, t_model, http_calls,
                       queue_last>>
        /\ UNCHANGED <<samplerVars, readerVars>>

\* update_queue_size, second half: .set(size) on the child
QueueSet(t) ==
    /\ t_pc[t] = "queue_set"
    /\ worker_queue_size' =
          SetGauge(worker_queue_size, <<t_queue[t][1]>>, t_queue[t][2])
    /\ queue_last' = [queue_last EXCEPT ![t_queue[t][1]] = t_queue[t][2]]
    /\ t_pc' = [t_pc EXCEPT ![t] = "idle"]
    /\ UNCHANGED <<counters, histograms, t_http, t_model, t_outcome, t_result,
                   t_marks, http_calls, calls, t_queue>>
    /\ UNCHANGED <<samplerVars, readerVars>>

\* ------------------------------------------------------ get_gpu_metrics
\* The same loop is the body of the /metrics/gpu route of create_metrics_app.
NoData == [k \in {} |-> [name |-> "", utilization |-> 0, memory_used |-> 0,
                         memory_total |-> 0, memory_percent |-> 0]]

InitSnapshot ==
    /\ g_pc = "idle"
    /\ g_i = 0
    /\ gpu_data = NoData
    /\ g_result = [kind |-> "none", val |-> NoData]
    /\ g_failed = {}
    /\ g_zero = {}
    /\ scrape = [kind |-> "none", val |-> <<>>]

\* The key f'gpu_{i}'
GpuKey(i) == "gpu_" \o ToString(i)

\* Python's true division: a zero divisor raises ZeroDivisionError.
DivRaises(total) == total = 0

\* (mem_info.used / mem_info.total) * 100, for readings whose quotient is exact
MemoryPercent(used, total) == (used * 100) \div total

\* The dict stored under gpu_data[f'gpu_{i}'].
GpuEntry(i, u, m) ==
    [name |-> DeviceName(i), utilization |-> u, memory_used |-> m.used,
     memory_total |-> m.total, memory_percent |-> MemoryPercent(m.used, m.total)]

\* End of one loop body of get_gpu_metrics.
SnapshotNext(i) ==
    IF i + 1 < gpu_count
    THEN [pc |-> "query", i |-> i + 1]
    ELSE [pc |-> "return", i |-> 0]

\* Variant: no guard inside the loop, the error reaches the caller.
OnSnapshotErrorEscapes(i) == [pc |-> "raise", i |-> 0]

\* try: ... except: pass inside the loop: the loop goes on.
OnSnapshotError(i) == SnapshotNext(i)

\* Variant: the quotient is computed after the guarded block.
OnDivisionErrorEscapes(i) == [pc |-> "raise", i |-> 0]

\* The quotient is computed inside the guarded block: its ZeroDivisionError
\* is caught by the same except: pass as a failing query.
OnDivisionError(i) == OnSnapshotError(i)

\* gpu_data = {}; if metrics.gpu_available: for i in range(metrics.gpu_count)
GetGpuMetricsStart ==
    /\ g_pc = "idle"
    /\ gpu_data' = NoData
    /\ g_failed' = {}
    /\ g_zero' = {}
    /\ g_result' = [kind |-> "none", val |-> NoData]
    /\ g_i' = 0
    /\ g_pc' = IF gpu_available /\ gpu_count > 0 THEN "query" ELSE "return"
    /\ UNCHANGED <<scrape, samplerVars, recorderVars>>

\* One loop body: the four live queries and the entry built from them.
GetGpuMetricsDevice ==
    /\ g_pc = "query"
    /\ \/ \E u \in UtilReadings, m \in MemReadings :
             IF DivRaises(m.total)
             THEN /\ g_failed' = g_failed \cup {g_i}
                  /\ g_zero' = g_zero \cup {g_i}
                  /\ g_pc' = OnDivisionError(g_i).pc
                  /\ g_i' = OnDivisionError(g_i).i
                  /\ UNCHANGED gpu_data
             ELSE /\ gpu_data' = [k \in (DOMAIN gpu_data) \cup {GpuKey(g_i)} |->
                        IF k = GpuKey(g_i) THEN GpuEntry(g_i, u, m) ELSE gpu_data[k]]
                  /\ g_pc' = SnapshotNext(g_i).pc
                  /\ g_i' = SnapshotNext(g_i).i
                  /\ UNCHANGED <<g_failed, g_zero>>
       \/ /\ g_failed' = g_failed \cup {g_i}
          /\ g_pc' = OnSnapshotError(g_i).pc
          /\ g_i' = OnSnapshotError(g_i).i
          /\ UNCHANGED <<gpu_data, g_zero>>
    /\ UNCHANGED <<g_result, scrape, samplerVars, recorderVars>>

\* return gpu_data (an exception that left the loop would reach the caller)
GetGpuMetricsExit ==
    /\ g_pc \in {"return", "raise"}
    /\ g_result' = [kind |-> g_pc, val |-> gpu_data]
    /\ g_pc' = "idle"
    /\ UNCHANGED <<g_i, gpu_data, g_failed, g_zero, scrape, samplerVars,
                   recorderVars>>

\* ------------------------------------------------ get_prometheus_metrics
\* Variant: the rendering waits until the collection thread is between cycles.
CanRenderBetweenCycles(pc) == pc \in {"loop", "sleep", "backoff"}

\* get_prometheus_metrics takes no lock of the collection thread and tests
\* nothing before it renders.
CanRender(pc) == TRUE

\* return generate_latest(): the text of every series the registry holds at
\* that moment.
Render ==
    /\ CanRender(s_pc)
    /\ scrape' = [kind |-> "return", val |-> registry]
    /\ UNCHANGED <<snapshotVars, samplerVars, recorderVars>>

\* ---------------------------------------------------------- specifications
vars == <<samplerVars, recorderVars, readerVars>>

Init == InitSampler /\ InitRecorder /\ InitSnapshot

\* The collection thread alone, on every hardware configuration.
SamplerNext ==
    \/ CollectGpuStart
    \/ GpuHandle
    \/ GpuUtil
    \/ GpuMemUsed
    \/ GpuMemTotal
    \/ GpuTemp
    \/ CollectSystem
    \/ Sleep

Spec == Init /\ [][SamplerNext]_vars

\* Application threads in record_http_request, the collection thread running
\* beside them on a host without the accelerator library.
InitNoGpu == Init /\ ~NVIDIA_AVAILABLE

HttpNext ==
    \/ \E t \in Threads : RecordHttpRequest(t)
    \/ \E t \in Threads : HttpInc(t)
    \/ CollectGpuStart
    \/ CollectSystem
    \/ Sleep

SpecHttp == InitNoGpu /\ [][HttpNext]_vars

\* Application threads in the two timing wrappers.
WrapperNext ==
    \/ \E t \in Threads : InferenceStart(t)
    \/ \E t \in Threads : InferenceFuncEnds(t)
    \/ \E t \in Threads : InferenceFinally(t)
    \/ \E t \in Threads : ModelLoadStart(t)
    \/ \E t \in Threads : ModelLoadFuncEnds(t)
    \/ \E t \in Threads : ModelLoadFinally(t)

SpecWrappers == InitNoGpu /\ [][WrapperNext]_vars

\* Callers of get_gpu_metrics beside threads that write the registry.
SnapshotSpecNext ==
    \/ GetGpuMetricsStart
    \/ GetGpuMetricsDevice
    \/ GetGpuMetricsExit
    \/ \E t \in Threads : RecordHttpRequest(t)
    \/ \E t \in Threads : HttpInc(t)

SpecSnapshot == Init /\ [][SnapshotSpecNext]_vars

\* The collection thread under the scheduler's guarantee that it keeps running.
SpecLive == Init /\ [][SamplerNext]_vars /\ WF_vars(SamplerNext)

\* The collection thread when the print of a phase's handler can raise too.
EscapeNext ==
    \/ SamplerNext
    \/ GpuHandlerRaises
    \/ SystemHandlerRaises
    \/ Backoff

SpecEscape == Init /\ [][EscapeNext]_vars /\ WF_vars(EscapeNext)

\* A host with at most one device.
InitSmall == Init /\ gpu_count <= 1

\* Scrapes beside the collection thread.
ServiceNext ==
    \/ SamplerNext
    \/ Render

SpecService == InitSmall /\ [][ServiceNext]_vars

\* Application threads in update_queue_size.
QueueNext ==
    \/ \E t \in Threads : UpdateQueueSize(t)
    \/ \E t \in Threads : QueueSet(t)

SpecQueue == InitNoGpu /\ [][QueueNext]_vars

\* Callers of get_gpu_metrics beside the collection thread.
DevicesNext ==
    \/ SamplerNext
    \/ GetGpuMetricsStart
    \/ GetGpuMetricsDevice
    \/ GetGpuMetricsExit

SpecDevices == InitSmall /\ [][DevicesNext]_vars

\* ------------------------------------------------------------------ claims
RunningDevices == 0 .. (gpu_count - 1)

\* Utilization and both memory gauges of device j were set in this cycle.
Recorded(j) ==
    {<<"utilization", j>>, <<"memory_used", j>>, <<"memory_total", j>>}
        \subseteq written

DevicePhaseOver == s_pc \in {"system", "sleep"}

\* C1: when the cycle's device phase is over and the query of one device
\* raised in it, every other device, those after it included, has had its
\* utilization and memory series updated in that cycle.
C1_OtherDevicesUpdated ==
    (DevicePhaseOver /\ failed # {}) =>
        \A j \in RunningDevices \ failed : Recorded(j)

\* C3: the collection thread never leaves its loop whatever raises, it
\* starts a new cycle again and again, and a cycle that follows a fault and
\* whose queries succeed has written what it sampled.
C3_SamplerSurvives ==
    /\ [](s_pc \in {"loop", "gpu_handle", "gpu_util", "gpu_mem_used",
                    "gpu_mem_total", "gpu_temp", "system", "sleep"})
    /\ []<>(s_pc = "loop")
    /\ []((faults_seen /\ s_pc = "sleep" /\ host_phase = "ok") =>
             app_info = AppInfo(HostCpuCount, s_memory))
    /\ []((faults_seen /\ s_pc = "sleep" /\ failed = {} /\ gpu_available) =>
             \A j \in RunningDevices : Recorded(j))

C3_Witness ==
    /\ faults_seen
    /\ last_sleep = SleepNormal
    /\ s_pc = "sleep"
    /\ host_phase = "ok"
    /\ failed = {}
    /\ gpu_count = MaxGpu
    /\ Recorded(MaxGpu - 1)

\* C4: without accelerator at startup no device series ever exists, and
\* every cycle runs the host phase, which writes app_info from its queries.
C4_NoGpuHostOnly ==
    ~gpu_available =>
        /\ gpu_utilization = NoSeries
        /\ gpu_memory_used = NoSeries
        /\ gpu_memory_total = NoSeries
        /\ gpu_temperature = NoSeries
        /\ s_pc \in {"loop", "system", "sleep"}
        /\ s_pc = "sleep" => host_phase # "pending"
        /\ (s_pc = "sleep" /\ host_phase = "ok") =>
              app_info = AppInfo(HostCpuCount, s_memory)

C4_Witness ==
    /\ ~gpu_available
    /\ s_pc = "sleep"
    /\ last_sleep = SleepNormal
    /\ host_phase = "ok"
    /\ app_info # NoInfo

\* C5: a temperature reading that raises for device i leaves utilization,
\* memory used and memory total of i recorded in that cycle, and the loop
\* goes on: every later device is processed unless a query of a device up
\* to it raised.
C5_TemperatureIsolated ==
    \A i \in temp_failed :
        /\ Recorded(i)
        /\ DevicePhaseOver =>
              \A j \in RunningDevices :
                  j > i => (Recorded(j) \/ \E k \in failed : k <= j)

C5_Witness ==
    /\ s_pc = "sleep"
    /\ temp_failed = {0}
    /\ failed = {}
    /\ Recorded(0)
    /\ Recorded(1)
    /\ GpuLabels(0) \notin DOMAIN gpu_temperature

\* C7: a device phase in which a query raised is followed by the host phase
\* in the same cycle; the host phase, failing or not, changes no device
\* gauge, and after a failing host phase the device writes of the cycle stand.
C7_PhasesIsolated ==
    /\ []((s_pc = "sleep" /\ failed # {}) => host_phase # "pending")
    /\ [][s_pc = "system" => UNCHANGED <<gauges, written>>]_vars
    /\ []((s_pc = "sleep" /\ host_phase = "fault" /\ failed = {} /\ gpu_available)
             => \A j \in RunningDevices : Recorded(j))

C7_Witness ==
    /\ s_pc = "sleep"
    /\ failed = {0}
    /\ host_phase = "ok"
    /\ app_info # NoInfo

AllIdle == \A t \in Threads : t_pc[t] = "idle"

\* C2: a time_inference call whose func raised has incremented the error
\* series of its model exactly once, has made exactly one observation in
\* inference_duration of its model when it leaves the wrapper, and hands the
\* caller the exception func raised.
C2_RaisingCallRecorded ==
    /\ [](\A t \in Threads :
            (t_marks[t].op = "inference" /\ t_outcome[t].kind = "raise") =>
                /\ t_marks[t].error = 1
                /\ t_pc[t] # "idle" => t_marks[t].observed = 0
                /\ t_pc[t] = "idle" =>
                      (t_marks[t].observed = 1 /\ t_result[t] = t_outcome[t]))
    /\ [][\A t \in Threads :
            (t_pc[t] = "inf_running" /\ t_pc'[t] = "inf_finally"
                /\ t_outcome'[t].kind = "raise") =>
                Value(inference_requests_total', <<t_model[t], "error">>)
                    = Value(inference_requests_total, <<t_model[t], "error">>) + 1]_vars
    /\ [][\A t \in Threads :
            (t_pc[t] = "inf_finally" /\ t_pc'[t] = "idle") =>
                Count(inference_duration', <<t_model[t]>>)
                    = Count(inference_duration, <<t_model[t]>>) + 1]_vars

C2_Witness ==
    \E t \in Threads :
        /\ t_pc[t] = "idle"
        /\ t_marks[t].op = "inference"
        /\ t_outcome[t] = [kind |-> "raise", val |-> "TimeoutError"]
        /\ t_result[t] = [kind |-> "raise", val |-> "TimeoutError"]
        /\ Value(inference_requests_total, <<t_model[t], "error">>) = 1
        /\ Count(inference_duration, <<t_model[t]>>) = 1

InFlight(a) == Cardinality({t \in Threads : t_pc[t] = "http_inc" /\ t_http[t] = a})

\* C8: under every interleaving the series of a label triple holds the number
\* of record_http_request calls made with it, less those that have not yet
\* incremented; it is never negative and never decreases.
C8_NoLostHttpUpdates ==
    /\ [](\A a \in HttpArgs :
            /\ Value(http_requests_total, HttpKey(a)) = http_calls[a] - InFlight(a)
            /\ Value(http_requests_total, HttpKey(a)) >= 0)
    /\ [][\A a \in HttpArgs :
            Value(http_requests_total', HttpKey(a))
                >= Value(http_requests_total, HttpKey(a))]_vars

C8_Witness ==
    /\ AllIdle
    /\ calls = MaxCalls
    /\ Value(http_requests_total, <<"GET", "/a", "200">>) = MaxCalls - 1
    /\ Value(http_requests_total, <<"GET", "/a", "500">>) = 1
    /\ last_sleep = SleepNormal

\* C9: a time_inference call whose func raised makes no success increment,
\* and the success series of a model changes only by one, in the step in
\* which a func wrapped for that model returns.
C9_NoSuccessOnRaise ==
    /\ [](\A t \in Threads :
            (t_marks[t].op = "inference" /\ t_outcome[t].kind = "raise") =>
                t_marks[t].success = 0)
    /\ [][\A m \in ModelNames :
            Value(inference_requests_total', <<m, "success">>)
                # Value(inference_requests_total, <<m, "success">>) =>
              /\ Value(inference_requests_total', <<m, "success">>)
                    = Value(inference_requests_total, <<m, "success">>) + 1
              /\ \E t \in Threads :
                    /\ t_pc[t] = "inf_running"
                    /\ t_model[t] = m
                    /\ t_pc'[t] = "inf_finally"
                    /\ t_outcome'[t].kind = "return"]_vars

C9_Witness ==
    /\ AllIdle
    /\ \E t \in Threads :
          /\ t_marks[t].op = "inference"
          /\ t_outcome[t].kind = "raise"
          /\ t_model[t] = "sdxl"
    /\ Value(inference_requests_total, <<"sdxl", "error">>) = 1
    /\ Value(inference_requests_total, <<"sdxl", "success">>) = 1

\* C10: a time_model_load call makes exactly one observation in
\* model_load_duration of its model_name when it leaves the wrapper, whether
\* func returned or raised; it changes no inference counter and no other
\* histogram, and hands the caller what func returned or raised.
C10_ModelLoadObservedOnce ==
    /\ [](\A t \in Threads :
            t_marks[t].op = "model_load" =>
                /\ t_marks[t].success = 0
                /\ t_marks[t].error = 0
                /\ t_pc[t] # "idle" => t_marks[t].observed = 0
                /\ t_pc[t] = "idle" =>
                      (t_marks[t].observed = 1 /\ t_result[t] = t_outcome[t]))
    /\ [][\A t \in Threads :
            (t_pc[t] = "load_running" /\ t_pc'[t] = "load_finally") =>
                UNCHANGED <<counters, histograms>>]_vars
    /\ [][\A t \in Threads :
            (t_pc[t] = "load_finally" /\ t_pc'[t] = "idle") =>
                /\ Count(model_load_duration', <<t_model[t]>>)
                      = Count(model_load_duration, <<t_model[t]>>) + 1
                /\ UNCHANGED <<counters, inference_duration>>]_vars

C10_Witness ==
    \E t \in Threads, u \in Threads :
        /\ t_pc[t] = "idle" /\ t_pc[u] = "idle"
        /\ t_marks[t].op = "model_load" /\ t_marks[u].op = "model_load"
        /\ t_result[t].kind = "raise" /\ t_result[u].kind = "return"
        /\ t_model[t] = "llama" /\ t_model[u] = "llama"
        /\ Count(model_load_duration, <<"llama">>) = 2
        /\ inference_requests_total = NoSeries

\* The values the series of a labelled metric hold.
SeriesValues(metric) == {metric[k] : k \in DOMAIN metric}

\* A sampled number is held by the registry: it is the value of a gauge
\* series, or its str() is a field of the Info record.
Held(v) ==
    \/ v \in SeriesValues(gpu_utilization) \cup SeriesValues(gpu_memory_used)
            \cup SeriesValues(gpu_memory_total) \cup SeriesValues(gpu_temperature)
    \/ ToString(v) \in SeriesValues(app_info)

\* C11: after a host phase whose queries all succeeded the registry holds
\* what the phase sampled: the CPU percentage, the used and the total
\* memory and the core count.
C11_HostSampleHeld ==
    (s_pc = "sleep" /\ host_phase = "ok") =>
        /\ Held(s_cpu_percent)
        /\ Held(s_memory_used)
        /\ Held(s_memory)
        /\ Held(HostCpuCount)

\* C12: the sleep that ends a cycle is 5 seconds when both phases returned
\* and 10 seconds when an exception left a phase and reached the handler of
\* collect_metrics; after either sleep the thread is back at the top of its
\* loop and starts the next cycle.
C12_SleepByCycleEnd ==
    /\ [][s_pc = "sleep" => (last_sleep' = SleepNormal /\ s_pc' = "loop")]_vars
    /\ [][s_pc = "backoff" => (last_sleep' = SleepBackoff /\ s_pc' = "loop")]_vars
    /\ []((s_pc = "loop" /\ host_phase \in {"ok", "fault"}) =>
             last_sleep = SleepNormal)
    /\ []((s_pc = "loop" /\ host_phase \in {"skipped", "escaped"}) =>
             last_sleep = SleepBackoff)
    /\ (s_pc \in {"sleep", "backoff"}) ~> (s_pc \in {"gpu_handle", "system"})

C12_Witness ==
    /\ s_pc = "system"
    /\ last_sleep = SleepBackoff
    /\ app_info # NoInfo
    /\ failed = {}

\* C13: no step of the collection thread or of get_gpu_metrics changes
\* gpu_available or gpu_count; gpu_available holds exactly when the library
\* was imported and its initialisation did not raise; and after a raising
\* initialisation gpu_count is 0, the collection thread never enters the
\* device loop, no device series exists and get_gpu_metrics queries nothing.
C13_AvailabilityFixed ==
    /\ [][UNCHANGED <<gpu_available, gpu_count>>]_vars
    /\ [](gpu_available <=> (NVIDIA_AVAILABLE /\ ~init_raised))
    /\ [](init_raised =>
             /\ ~gpu_available
             /\ gpu_count = 0
             /\ s_pc \in {"loop", "system", "sleep"}
             /\ written = {}
             /\ gpu_utilization = NoSeries
             /\ g_pc # "query")

C13_Witness ==
    /\ NVIDIA_AVAILABLE
    /\ init_raised
    /\ s_pc = "sleep"
    /\ last_sleep = SleepNormal
    /\ host_phase = "ok"
    /\ g_result.kind = "return"
    /\ g_result.val = NoData

\* C14: get_prometheus_metrics can be executed in every state of the
\* collection thread, it always returns, and what it returns is the registry
\* as it stands at that moment, which it leaves as it is.
C14_RenderNeverWaits ==
    /\ [](ENABLED Render)
    /\ [](scrape.kind \in {"none", "return"})
    /\ [][scrape' # scrape =>
            /\ scrape'.kind = "return"
            /\ scrape'.val = registry
            /\ registry' = registry
            /\ sampler' = sampler]_vars

C14_Witness ==
    /\ s_pc = "gpu_mem_used"
    /\ last_sleep = 0
    /\ scrape.kind = "return"
    /\ scrape.val = registry
    /\ GpuLabels(0) \in DOMAIN gpu_utilization
    /\ GpuLabels(0) \notin DOMAIN gpu_memory_used
    /\ app_info = NoInfo

\* C15: the series of a queue holds the size of the last update_queue_size
\* call completed for it; a completing call leaves its series at its size
\* whatever the series held, leaves the whole gauge as it is when the series
\* held that size already, and leaves the series of every other queue alone.
C15_QueueSizeOverwrites ==
    /\ [](\A q \in QueueNames :
            queue_last[q] # NoSize =>
                Value(worker_queue_size, <<q>>) = queue_last[q])
    /\ [][\A t \in Threads :
            (t_pc[t] = "queue_set" /\ t_pc'[t] = "idle") =>
                /\ Value(worker_queue_size', <<t_queue[t][1]>>) = t_queue[t][2]
                /\ Value(worker_queue_size, <<t_queue[t][1]>>) = t_queue[t][2]
                      => worker_queue_size' = worker_queue_size
                /\ \A q \in QueueNames \ {t_queue[t][1]} :
                      /\ Value(worker_queue_size', <<q>>)
                            = Value(worker_queue_size, <<q>>)
                      /\ <<q>> \in DOMAIN worker_queue_size'
                            <=> <<q>> \in DOMAIN worker_queue_size]_vars

C15_Witness ==
    /\ AllIdle
    /\ calls = MaxCalls
    /\ queue_last = [q \in QueueNames |-> IF q = "render" THEN 0 ELSE 5]
    /\ \E t \in Threads, u \in Threads :
          /\ t # u
          /\ t_queue[t] = <<"render", 0>>
          /\ t_queue[u] = <<"render", 5>>

\* C16: when only queries raise, the thread is never in the handler of
\* collect_metrics, every sleep it has made is the 5 second one, and a cycle
\* that reaches its sleep has run the host phase.
C16_NoBackoffOnQueryErrors ==
    /\ s_pc # "backoff"
    /\ last_sleep \in {0, SleepNormal}
    /\ s_pc = "sleep" => host_phase \in {"ok", "fault"}

C16_Witness ==
    /\ s_pc = "loop"
    /\ last_sleep = SleepNormal
    /\ failed # {}
    /\ temp_failed # {}
    /\ host_phase = "fault"

\* Increments of the two status series of model m.
Counted(m) ==
    Value(inference_requests_total, <<m, "success">>)
        + Value(inference_requests_total, <<m, "error">>)

\* Threads inside a time_inference wrapper for model m.
InferenceInFlight(m) ==
    {t \in Threads : t_pc[t] \in {"inf_running", "inf_finally"} /\ t_model[t] = m}

\* Those of them that have counted and not yet observed.
InferenceCounted(m) ==
    {t \in Threads : t_pc[t] = "inf_finally" /\ t_model[t] = m}

\* C17: for every model the observation count of inference_duration is at
\* most the sum of its success and error series, behind it by the calls that
\* have counted and not yet observed, and equal to it when no time_inference
\* call for the model is in flight.
C17_ObservationsFollowCounters ==
    \A m \in ModelNames :
        /\ Count(inference_duration, <<m>>) <= Counted(m)
        /\ Counted(m) - Count(inference_duration, <<m>>)
              = Cardinality(InferenceCounted(m))
        /\ InferenceInFlight(m) = {} =>
              Count(inference_duration, <<m>>) = Counted(m)

C17_Witness ==
    /\ Count(inference_duration, <<"llama">>) = 1
    /\ Counted("llama") = MaxCalls
    /\ Cardinality(InferenceCounted("llama")) = NumThreads

GaugeNames == {"utilization", "memory_used", "memory_total", "temperature"}

\* The gauge a name of the written history stands for.
GaugeOf(name) ==
    CASE name = "utilization" -> gpu_utilization
      [] name = "memory_used" -> gpu_memory_used
      [] name = "memory_total" -> gpu_memory_total
      [] name = "temperature" -> gpu_temperature

\* The series of device i in a gauge: <<>> while absent, else <<its value>>.
SeriesOf(name, i) ==
    IF GpuLabels(i) \in DOMAIN GaugeOf(name)
    THEN <<GaugeOf(name)[GpuLabels(i)]>>
    ELSE <<>>

\* C18: within a cycle the gauges of a device are written in the order
\* utilization, memory used, memory total, temperature, at most one in a
\* step; a series changes only in the step that writes it, so a failing
\* query undoes nothing written before it and touches no gauge not yet
\* written, and every gauge written in the cycle has its series.
C18_OrderedWritesNoRollback ==
    /\ [](\A i \in RunningDevices :
            /\ <<"memory_used", i>> \in written => <<"utilization", i>> \in written
            /\ <<"memory_total", i>> \in written => <<"memory_used", i>> \in written
            /\ <<"temperature", i>> \in written => <<"memory_total", i>> \in written)
    /\ [](\A w \in written : SeriesOf(w[1], w[2]) # <<>>)
    /\ [][/\ Cardinality(written' \ written) <= 1
          /\ \A name \in GaugeNames, i \in RunningDevices :
                SeriesOf(name, i)' # SeriesOf(name, i) =>
                    <<name, i>> \in written' \ written
          /\ failed' # failed => UNCHANGED gauges]_vars

C18_Witness ==
    /\ s_pc = "system"
    /\ last_sleep = SleepNormal
    /\ failed = {0}
    /\ written = {<<"utilization", 0>>}
    /\ SeriesOf("utilization", 0) = <<90>>
    /\ SeriesOf("memory_used", 0) = <<4>>
    /\ SeriesOf("memory_total", 0) = <<8>>

\* C19: get_gpu_metrics never raises and what it builds and returns has no
\* entry for a device whose total memory read 0, while the collection thread
\* that reads total memory 0 for a device sets its utilization and both
\* memory gauges, the total to 0, without counting a failure for it.
C19_ZeroTotalDisagreement ==
    /\ [](g_pc # "raise" /\ g_result.kind # "raise")
    /\ [](\A i \in g_zero : i \in g_failed /\ GpuKey(i) \notin DOMAIN gpu_data)
    /\ [](g_result.kind = "return" =>
             \A i \in g_zero : GpuKey(i) \notin DOMAIN g_result.val)
    /\ []((s_pc = "gpu_temp" /\ s_mem_info.total = 0) =>
             /\ Recorded(s_i)
             /\ s_i \notin failed
             /\ SeriesOf("memory_total", s_i) = <<0>>)
    /\ [][(s_pc = "gpu_mem_total" /\ s_mem_info.total = 0 /\ s_pc' # s_pc) =>
             (s_pc' = "gpu_temp" /\ failed' = failed)]_vars

C19_Witness ==
    /\ g_result.kind = "return"
    /\ g_zero = {0}
    /\ g_result.val = NoData
    /\ s_pc = "gpu_temp"
    /\ s_mem_info.total = 0
    /\ Recorded(0)
    /\ SeriesOf("memory_total", 0) = <<0>>
====
